---- MODULE Spec2Model ----
(***************************************************************************)
(* A model of the vuit session engine: the key dispatcher with its five    *)
(* contexts, the background content-search workers and the PTY terminal    *)
(* session (src/src/vuit/mod.rs, events.rs, ui.rs, contexts/*.rs).         *)
(*                                                                         *)
(* Strings are sequences of one-character strings.  A step of the primary  *)
(* thread is one iteration of the run loop: the draw, then dispatch_event. *)
(***************************************************************************)
EXTENDS Integers, Sequences, FiniteSets, TLC

\* ------------------------------------------------------------------ bounds
\* The longest typed_input the user types (characters).
MaxInput == 1
\* The most search worker threads alive at the same time.
MaxWorkers == 2
\* The most commands written to a shell and not yet read by it.
MaxPending == 1
\* The most restarts of the terminal session.
MaxRestarts == 1
\* The most lines held by the terminal output buffer.
MaxBuf == 2

\* --------------------------------------------------------------- the world
\* The characters the user types into the command line.
Chars == {"a"}

PathA == <<".", "/", "a">>
PathB == <<".", "/", "b">>

\* The regular files under the working directory, in the order of the walk.
DiskFiles == <<PathA, PathB>>

\* The lines of each file.
FileLines(p) ==
    IF p = PathA THEN << <<"A">> >>
    ELSE IF p = PathB THEN << <<"b", "\t">> >>
    ELSE << >>

\* The files whose open may fail when a worker scans them.
MayFailToOpen == {PathB}

\* ------------------------------------------------------------ pure helpers
Contexts == {"Fileviewer", "Stringsearch", "Stringsearchreplace", "Terminal", "Help"}
Focuses == {"Recentfiles", "Filelist", "Filestrlist"}

AsciiGraphic ==
    {"a", "b", "A", "B", ".", "/", ":", ";",
     "0", "1", "2", "3", "4", "5", "6", "7", "8", "9"}

IsKept(c) == c \in AsciiGraphic \/ c = "\n" \/ c = " "

RECURSIVE clean_utf8_content(_)
clean_utf8_content(content) ==
    IF content = << >> THEN << >>
    ELSE IF IsKept(Head(content))
         THEN <<Head(content)>> \o clean_utf8_content(Tail(content))
         ELSE clean_utf8_content(Tail(content))

ToLowerChar(c) == IF c = "A" THEN "a" ELSE IF c = "B" THEN "b" ELSE c

SameCase(s) == s

to_lowercase(s) == [i \in 1..Len(s) |-> ToLowerChar(s[i])]

\* memmem::find(haystack, needle).is_some()
memmem_find(hay, needle) ==
    \E i \in 0..(Len(hay) - Len(needle)) :
        \A j \in 1..Len(needle) : hay[i + j] = needle[j]

DigitChars == <<"0", "1", "2", "3", "4", "5", "6", "7", "8", "9">>

RECURSIVE FmtNat(_)
FmtNat(n) ==
    IF n < 10 THEN <<DigitChars[n + 1]>>
    ELSE FmtNat(n \div 10) \o <<DigitChars[(n % 10) + 1]>>

\* format!("{}:{}:{}", path, line_number + 1, line), cleaned
MatchEntry(path, line_number, line) ==
    clean_utf8_content(path \o <<":">> \o FmtNat(line_number + 1) \o <<":">> \o line)

\* str::split(sep): the pieces between the separators, at least one.
RECURSIVE SplitOn(_, _)
SplitOn(s, sep) ==
    IF s = << >> THEN << << >> >>
    ELSE LET rest == SplitOn(Tail(s), sep)
         IN IF Head(s) = sep THEN << << >> >> \o rest
            ELSE <<(<<Head(s)>> \o Head(rest))>> \o Tail(rest)

\* The value of a sequence of digits after the value acc.
RECURSIVE ParseDigits(_, _)
ParseDigits(s, acc) ==
    IF s = << >> THEN acc
    ELSE ParseDigits(Tail(s),
                     10 * acc + (CHOOSE d \in 0..9 : DigitChars[d + 1] = Head(s)))

\* str::parse::<usize>(): the number, or -1 for Err.
ParseNat(s) ==
    IF s # << >> /\ \A i \in 1..Len(s) : \E d \in 0..9 : DigitChars[d + 1] = s[i]
    THEN ParseDigits(s, 0) ELSE -1

\* str::lines(): the pieces between the line feeds, without a last empty one.
Lines(content) ==
    LET pieces == SplitOn(content, "\n")
    IN IF pieces[Len(pieces)] = << >> THEN SubSeq(pieces, 1, Len(pieces) - 1) ELSE pieces

\* [String]::join("\n")
RECURSIVE JoinLines(_)
JoinLines(lines) ==
    IF lines = << >> THEN << >>
    ELSE IF Len(lines) = 1 THEN lines[1]
    ELSE lines[1] \o <<"\n">> \o JoinLines(Tail(lines))

IsPrefix(p, s) == Len(p) <= Len(s) /\ SubSeq(s, 1, Len(p)) = p

\* str::replace(from, to) for a non-empty from: every occurrence, left to
\* right, without overlap.
RECURSIVE ReplaceAll(_, _, _)
ReplaceAll(s, from, to) ==
    IF s = << >> THEN << >>
    ELSE IF IsPrefix(from, s)
    THEN to \o ReplaceAll(SubSeq(s, Len(from) + 1, Len(s)), from, to)
    ELSE <<Head(s)>> \o ReplaceAll(Tail(s), from, to)

\* str::split_once(':').map(|(before, _)| before).unwrap_or(whole)
RECURSIVE BeforeColon(_)
BeforeColon(s) ==
    IF s = << >> THEN << >>
    ELSE IF Head(s) = ":" THEN << >>
    ELSE <<Head(s)>> \o BeforeColon(Tail(s))

\* The matches of one opened file, in line order.
RECURSIVE FileMatchesFrom(_, _, _)
FileMatchesFrom(path, search, n) ==
    IF n >= Len(FileLines(path)) THEN << >>
    ELSE LET line == FileLines(path)[n + 1]
             rest == FileMatchesFrom(path, search, n + 1)
         IN IF memmem_find(to_lowercase(line), search)
            THEN <<MatchEntry(path, n, line)>> \o rest
            ELSE rest

FileMatches(path, search) == FileMatchesFrom(path, search, 0)

\* pattern is a subsequence of item; smart case: a lower-case pattern
\* matches either case.
RECURSIVE IsSubseq(_, _)
IsSubseq(pat, item) ==
    IF pat = << >> THEN TRUE
    ELSE IF item = << >> THEN FALSE
    ELSE IF Head(pat) = ToLowerChar(Head(item)) \/ Head(pat) = Head(item)
         THEN IsSubseq(Tail(pat), Tail(item))
         ELSE IsSubseq(pat, Tail(item))

RECURSIVE FirstHit(_, _)
FirstHit(c, item) ==
    IF item = << >> THEN 0
    ELSE IF ToLowerChar(Head(item)) = c \/ Head(item) = c THEN 0
    ELSE 1 + FirstHit(c, Tail(item))

\* The score of a matching item: longer patterns score higher, a match that
\* starts nearer the front of the item scores higher.
FuzzyScore(item, pat) ==
    IF pat = << >> THEN 0 ELSE 16 * Len(pat) - FirstHit(Head(pat), item)

fuzzy_match(item, pat) ==
    IF IsSubseq(pat, item) THEN <<FuzzyScore(item, pat)>> ELSE << >>

\* Insert a (score, item) pair into a list sorted by non-increasing score,
\* after the pairs of equal score (the sort of a short slice is an
\* insertion sort).
RECURSIVE InsertByScore(_, _)
InsertByScore(pair, sorted) ==
    IF sorted = << >> THEN <<pair>>
    ELSE IF pair[1] > Head(sorted)[1] THEN <<pair>> \o sorted
    ELSE <<Head(sorted)>> \o InsertByScore(pair, Tail(sorted))

RECURSIVE ScoredSorted(_, _)
ScoredSorted(items, pat) ==
    IF items = << >> THEN << >>
    ELSE LET front == ScoredSorted(SubSeq(items, 1, Len(items) - 1), pat)
             last  == items[Len(items)]
             m     == fuzzy_match(last, pat)
         IN IF m = << >> THEN front ELSE InsertByScore(<<m[1], last>>, front)

run_search_cmd(fd, typed) ==
    LET ranked == ScoredSorted(fd, typed)
    IN [i \in 1..Len(ranked) |-> clean_utf8_content(ranked[i][2])]

run_fd_cmd == DiskFiles

Contains(list, x) == \E i \in 1..Len(list) : list[i] = x

RemoveAt(list, i) == SubSeq(list, 1, i - 1) \o SubSeq(list, i + 1, Len(list))

\* recent_files holds at most this many entries.
RecentCap == 5

\* ------------------------------------------------------------------- state
VARIABLES
    switch_context,     \* the active Context
    prev_context,       \* the context remembered by the toggles
    switch_focus,       \* the Focus
    typed_input,        \* the typed input buffer
    hltd_file,          \* the highlighted index (0-based)
    file_list,          \* the file list view
    file_str_list,      \* the content-match list
    recent_files,       \* the recent files
    fd_list,            \* the file index
    current_str_filter, \* the recorded filter string of search-and-replace
    fsl_selected,       \* file_str_list_state.selected().is_some()
    exit,               \* the exit flag
    panicked,           \* the process was aborted by a panic
    tmux,               \* the TMUX environment variable is set
    toggle_origin,      \* history: the toggle that entered the context, and from where
    search_in_progress, \* a search job is in flight
    search_progress,    \* the shared atomic progress counter
    search_result,      \* the shared result slot: << >> (None) or <<data>> (Some)
    workers,            \* the search worker threads alive
    bash_process,       \* the session whose child handle is held
    command_sender,     \* the session whose writer is held
    shell_in,           \* per session: what was written to the shell and not yet read by it
    pty_out,            \* per session: the lines the shell wrote and the reader has not read
    process_out,        \* the shared terminal output buffer
    readers,            \* the sessions whose reader thread is alive
    live_shells,        \* the sessions whose shell process is alive
    term_fault,         \* the system call of the terminal session that failed, if any
    term_out,           \* the text of the terminal pane, as lines
    first_term_open,    \* nothing was sent to the terminal session yet
    colorscheme_index,  \* the index of the color scheme
    colorscheme,        \* config.colorscheme
    highlight_color,    \* config.highlight_color
    disk,               \* per file: its content and whether it can be read and written
    replaced            \* history: what the last replace was applied to

uiVars == <<switch_context, prev_context, switch_focus, typed_input, hltd_file,
            file_list, file_str_list, recent_files, fd_list, current_str_filter,
            fsl_selected, exit, panicked, term_out, first_term_open,
            colorscheme_index, colorscheme, highlight_color, disk, replaced>>
searchVars == <<search_in_progress, search_progress, search_result, workers>>
shellVars == <<bash_process, command_sender, shell_in, pty_out, readers, live_shells,
               term_fault>>
termVars == <<shellVars, process_out>>
vars == <<uiVars, tmux, toggle_origin, searchVars, termVars>>

Sessions == 0..MaxRestarts

\* const COLORS
COLORS == <<"lightblue", "cyan", "lightgreen", "yellow", "lightred", "green",
            "lightcyan", "blue", "lightyellow", "red">>

\* VuitRC::default(), and the configurations ~/.vuit/.vuitrc may hold.
DefaultConfig == [colorscheme |-> "lightblue", highlight_color |-> "blue"]

Configs == {DefaultConfig,
            [colorscheme |-> "red", highlight_color |-> "white"],
            [colorscheme |-> "cyan", highlight_color |-> "lightgreen"]}

\* The system calls of start_term that may fail.
StartFaults == {"openpty", "spawn"}

\* "Nice Try"
JokeMessage == << <<"N", "i", "c", "e", " ", "T", "r", "y">> >>

\* The files as the walk and the searches find them.
DiskPaths == {DiskFiles[i] : i \in 1..Len(DiskFiles)}

NotReplaced == [held |-> << >>, filter |-> << >>, typed |-> << >>, disk |-> << >>]

NoOrigin == [kind |-> "none", from |-> "none"]

\* The state of the application when the run loop is entered, but for the
\* context, the text typed and the history.
InitApp ==
    /\ term_fault \in {"none"} \cup StartFaults
    /\ prev_context = "Fileviewer"
    /\ switch_focus = "Filelist"
    /\ hltd_file = 0
    /\ recent_files = << >>
    /\ replaced = NotReplaced
    /\ fsl_selected = FALSE
    /\ exit = FALSE
    /\ panicked = (term_fault # "none")
    /\ tmux \in BOOLEAN
    /\ search_in_progress = FALSE
    /\ search_progress = 0
    /\ search_result = << >>
    /\ workers = << >>
    /\ bash_process = 0
    /\ command_sender = 0
    /\ shell_in = [s \in Sessions |-> << >>]
    /\ pty_out = [s \in Sessions |-> << >>]
    /\ process_out = << >>
    /\ readers = IF term_fault = "none" THEN {0} ELSE {}
    /\ live_shells = IF term_fault = "none" THEN {0} ELSE {}
    /\ term_out = << >>
    /\ first_term_open \in BOOLEAN
    /\ colorscheme_index = 0
    /\ \E cfg \in Configs :
          colorscheme = cfg.colorscheme /\ highlight_color = cfg.highlight_color

\* Nothing was searched or replaced yet.
InitUntouched ==
    /\ disk = [p \in DiskPaths |->
                 [content |-> JoinLines(FileLines(p)) \o <<"\n">>,
                  readable |-> TRUE, writable |-> TRUE]]
    /\ fd_list = run_fd_cmd
    /\ file_list = run_search_cmd(run_fd_cmd, << >>)
    /\ file_str_list = << >>
    /\ current_str_filter = << >>

Init ==
    /\ InitApp
    /\ InitUntouched
    /\ switch_context = "Fileviewer"
    /\ typed_input = << >>
    /\ toggle_origin = NoOrigin

\* The run loop is running: neither left by the exit flag nor aborted.
Running == ~exit /\ ~panicked

\* ------------------------------------------------------------ the handlers
\* A handler yields the assignments it makes, as a record; NoUpdate assigns
\* nothing.
NoUpdate == << >>
Get(u, f, d) == IF f \in DOMAIN u THEN u[f] ELSE d
Panic == [panic |-> TRUE]

FocusList(f, rl, fl, sl) ==
    CASE f = "Recentfiles" -> rl
      [] f = "Filelist" -> fl
      [] f = "Filestrlist" -> sl

FocusedList == FocusList(switch_focus, recent_files, file_list, file_str_list)

\* if hltd_file >= list.len() && !list.is_empty() { hltd_file = list.len() - 1 }
Clamp(h, list) == IF h >= Len(list) /\ list # << >> THEN Len(list) - 1 ELSE h

\* The selection of file_str_list_state after a draw: stringsearch::render
\* selects an entry when the Focus is Filestrlist, and the List widget drops
\* the selection of an empty list.
RenderSel(ctx, focus, sl, sel) ==
    IF ctx = "Stringsearch"
    THEN (IF sl = << >> THEN FALSE ELSE (focus = "Filestrlist" \/ sel))
    ELSE sel

\* The selection the handler of this iteration sees: the draw comes first.
RenderedSel == RenderSel(switch_context, switch_focus, file_str_list, fsl_selected)

\* terminal::render_output: the lines of the buffer, joined.
render_output == [i \in 1..Len(process_out) |-> process_out[i].text]

\* terminal::render, drawn in Terminal context only: term_out and, on the
\* first opening, the shared buffer are cleared; otherwise term_out is
\* the buffer.
RenderedTermOut ==
    IF switch_context = "Terminal"
    THEN (IF first_term_open THEN << >> ELSE render_output)
    ELSE term_out

RenderedOut ==
    IF switch_context = "Terminal" /\ first_term_open THEN << >> ELSE process_out

\* An iteration of the run loop that does not touch the terminal session:
\* the draw alone acts on the buffer.
TerminalDrawn == process_out' = RenderedOut /\ UNCHANGED shellVars

\* file_str_list_state.select(Some(hltd_file)) in the arm of the Focus
SelAfterSelect == IF switch_focus = "Filestrlist" THEN TRUE ELSE RenderedSel

Refiltered(typed) ==
    LET fl == run_search_cmd(fd_list, typed)
    IN [typed |-> typed, file_list |-> fl,
        hltd |-> Clamp(hltd_file, FocusList(switch_focus, recent_files, fl, file_str_list)),
        sel |-> SelAfterSelect]

FileviewerChar(c) == Refiltered(Append(typed_input, c))

FileviewerBackspace ==
    IF typed_input = << >> THEN NoUpdate
    ELSE Refiltered(SubSeq(typed_input, 1, Len(typed_input) - 1))

\* A variant of the eviction that drops the entry just pushed instead of the
\* oldest one.
EvictNewest(recent) ==
    IF Len(recent) > RecentCap THEN SubSeq(recent, 1, RecentCap) ELSE recent

\* if recent_files.len() > 5 { recent_files.remove(0) }
EvictOldest(recent) == IF Len(recent) > RecentCap THEN Tail(recent) ELSE recent

FileviewerEnter ==
    IF hltd_file >= Len(FocusedList) THEN NoUpdate
    ELSE LET entry == file_list[hltd_file + 1]
             pushed == IF switch_focus = "Filelist" /\ ~Contains(recent_files, entry)
                       THEN Append(recent_files, entry)
                       ELSE recent_files
         IN [recent |-> EvictOldest(pushed)]

FileviewerCtrlF ==
    [typed |-> << >>, prev |-> switch_context, ctx |-> "Stringsearch"]

NavDown ==
    IF FocusedList = << >> THEN NoUpdate
    ELSE [hltd |-> Clamp(hltd_file + 1, FocusedList), sel |-> SelAfterSelect]

NavUp ==
    IF FocusedList = << >> \/ hltd_file = 0 THEN NoUpdate
    ELSE [hltd |-> hltd_file - 1, sel |-> SelAfterSelect]

TabTargetSwapped ==
    CASE switch_focus = "Recentfiles" ->
            IF file_str_list # << >> THEN "Filestrlist"
            ELSE IF file_list # << >> THEN "Filelist" ELSE switch_focus
      [] switch_focus = "Filelist" ->
            IF recent_files # << >> THEN "Recentfiles"
            ELSE IF file_str_list # << >> THEN "Filestrlist" ELSE switch_focus
      [] switch_focus = "Filestrlist" ->
            IF file_list # << >> THEN "Filelist"
            ELSE IF recent_files # << >> THEN "Recentfiles" ELSE switch_focus

TabTarget ==
    CASE switch_focus = "Recentfiles" ->
            IF file_list # << >> THEN "Filelist"
            ELSE IF file_str_list # << >> THEN "Filestrlist" ELSE switch_focus
      [] switch_focus = "Filelist" ->
            IF file_str_list # << >> THEN "Filestrlist"
            ELSE IF recent_files # << >> THEN "Recentfiles" ELSE switch_focus
      [] switch_focus = "Filestrlist" ->
            IF recent_files # << >> THEN "Recentfiles"
            ELSE IF file_list # << >> THEN "Filelist" ELSE switch_focus

NavTab == [focus |-> TabTarget, hltd |-> 0, sel |-> (TabTarget = "Filestrlist")]

Rescan == [fd_list |-> run_fd_cmd]

FileviewerCtrlT ==
    IF tmux THEN NoUpdate
    ELSE [typed |-> << >>, prev |-> switch_context, ctx |-> "Terminal",
          term_out |-> << >>]

\* A variant of the help toggle that forgets the entering context.
CtrlHForgets ==
    IF switch_context = "Help" THEN [ctx |-> "Fileviewer"]
    ELSE [prev |-> switch_context, ctx |-> "Help"]

FileviewerCtrlH ==
    IF switch_context = "Help" THEN [ctx |-> prev_context]
    ELSE [prev |-> switch_context, ctx |-> "Help"]

\* A variant of that arm which enters Help without recording the context
\* it leaves.
OtherCtrlHKeepsPrev ==
    IF switch_context = "Help" THEN [prev |-> "Help", ctx |-> "Help"]
    ELSE [ctx |-> "Help"]

\* The Ctrl-h arm of the stringsearch, stringsearchreplace and terminal handlers.
OtherCtrlH ==
    IF switch_context = "Help" THEN [prev |-> "Help", ctx |-> "Help"]
    ELSE [prev |-> switch_context, ctx |-> "Help"]

PlainChar(c) == [typed |-> Append(typed_input, c)]

PlainBackspace ==
    IF typed_input = << >> THEN NoUpdate
    ELSE [typed |-> SubSeq(typed_input, 1, Len(typed_input) - 1)]

\* Enter with a match selected, in Stringsearch and Stringsearchreplace: the
\* path of the match is pushed onto recent_files and the editor is run.
OpenSelectedMatch ==
    IF hltd_file >= Len(file_str_list) THEN Panic
    ELSE LET entry == file_str_list[hltd_file + 1]
             pushed == IF ~Contains(recent_files, entry)
                       THEN Append(recent_files, BeforeColon(entry))
                       ELSE recent_files
         IN [recent |-> EvictOldest(pushed),
             sel |-> RenderSel(switch_context, switch_focus, file_str_list, FALSE)]

\* Enter opens the selected match; otherwise it starts a search (or replaces).
MatchSelected == switch_focus = "Filestrlist" /\ RenderedSel

StringsearchCtrlF ==
    [typed |-> << >>, fsl |-> << >>, prev |-> switch_context, ctx |-> "Fileviewer",
     file_list |-> run_search_cmd(fd_list, << >>)]

RemoveRecent ==
    IF switch_focus = "Recentfiles" /\ Len(recent_files) > 0
    THEN (IF hltd_file >= Len(recent_files) THEN Panic
          ELSE [recent |-> RemoveAt(recent_files, hltd_file + 1), hltd |-> 0])
    ELSE NoUpdate

\* A variant of the loop that reads the file again for every match instead
\* of sharing the copy read first.
RECURSIVE ReplaceLoopRereads(_, _)
ReplaceLoopRereads(entries, cache) ==
    IF entries = << >> THEN cache
    ELSE LET entry == Head(entries)
             parts == SplitOn(entry, ":")
             file_path == parts[1]
             line_number == ParseNat(parts[2])
             lines == IF file_path \in DOMAIN disk /\ disk[file_path].readable
                      THEN Lines(disk[file_path].content) ELSE << >>
             cached == [has |-> cache.has \cup {file_path},
                        lines |-> [q \in cache.has \cup {file_path} |->
                                     IF q = file_path THEN lines ELSE cache.lines[q]]]
         IN IF Len(parts) < 3 \/ line_number < 0 THEN ReplaceLoopRereads(Tail(entries), cache)
            ELSE IF line_number = 0 \/ line_number > Len(lines)
            THEN ReplaceLoopRereads(Tail(entries), cached)
            ELSE ReplaceLoopRereads(Tail(entries),
                    [cached EXCEPT !.lines[file_path][line_number] =
                        ReplaceAll(@, current_str_filter, typed_input)])

RECURSIVE ReplaceLoopBreaks(_, _)
ReplaceLoopBreaks(entries, cache) ==
    IF entries = << >> THEN cache
    ELSE LET entry == Head(entries)
             parts == SplitOn(entry, ":")
             file_path == parts[1]
             line_number == ParseNat(parts[2])
             read == IF file_path \in DOMAIN disk /\ disk[file_path].readable
                     THEN Lines(disk[file_path].content) ELSE << >>
             lines == IF file_path \in cache.has THEN cache.lines[file_path] ELSE read
             cached == [has |-> cache.has \cup {file_path},
                        lines |-> [q \in cache.has \cup {file_path} |->
                                     IF q = file_path THEN lines ELSE cache.lines[q]]]
         IN IF Len(parts) < 3 \/ line_number < 0 THEN ReplaceLoopBreaks(Tail(entries), cache)
            ELSE IF line_number = 0 \/ line_number > Len(lines)
            THEN cached
            ELSE ReplaceLoopBreaks(Tail(entries),
                    [cached EXCEPT !.lines[file_path][line_number] =
                        ReplaceAll(@, current_str_filter, typed_input)])

\* The file cache of replace_string_occurences after the entries: for the
\* paths in has, the lines held.
RECURSIVE ReplaceLoop(_, _)
ReplaceLoop(entries, cache) ==
    IF entries = << >> THEN cache
    ELSE LET entry == Head(entries)
             parts == SplitOn(entry, ":")
             file_path == parts[1]
             line_number == ParseNat(parts[2])
             read == IF file_path \in DOMAIN disk /\ disk[file_path].readable
                     THEN Lines(disk[file_path].content) ELSE << >>
             lines == IF file_path \in cache.has THEN cache.lines[file_path] ELSE read
             cached == [has |-> cache.has \cup {file_path},
                        lines |-> [q \in cache.has \cup {file_path} |->
                                     IF q = file_path THEN lines ELSE cache.lines[q]]]
         IN IF Len(parts) < 3 \/ line_number < 0 THEN ReplaceLoop(Tail(entries), cache)
            ELSE IF line_number = 0 \/ line_number > Len(lines)
            THEN ReplaceLoop(Tail(entries), cached)
            ELSE ReplaceLoop(Tail(entries),
                    [cached EXCEPT !.lines[file_path][line_number] =
                        ReplaceAll(@, current_str_filter, typed_input)])

\* fs::write of every file of the cache; a write that fails is dropped.
WrittenBack(cache) ==
    [p \in DOMAIN disk |->
        IF p \in cache.has /\ disk[p].writable
        THEN [disk[p] EXCEPT !.content = JoinLines(cache.lines[p])]
        ELSE disk[p]]

\* A variant of the replace that, with an empty filter, returns after
\* clearing the matches held and the typed input.
ReplaceClearsOnEmptyFilter ==
    IF current_str_filter = << >> THEN [fsl |-> << >>, typed |-> << >>]
    ELSE [disk |-> WrittenBack(ReplaceLoop(file_str_list, [has |-> {}, lines |-> << >>])),
          replaced |-> [held |-> file_str_list, filter |-> current_str_filter,
                        typed |-> typed_input, disk |-> disk],
          fsl |-> << >>, typed |-> << >>]

replace_string_occurences ==
    IF current_str_filter = << >> THEN NoUpdate
    ELSE [disk |-> WrittenBack(ReplaceLoop(file_str_list, [has |-> {}, lines |-> << >>])),
          replaced |-> [held |-> file_str_list, filter |-> current_str_filter,
                        typed |-> typed_input, disk |-> disk],
          fsl |-> << >>, typed |-> << >>]

StringsearchreplaceCtrlR ==
    [str_filter |-> << >>, typed |-> << >>, ctx |-> "Stringsearch"]

StringsearchreplaceCtrlF ==
    [typed |-> << >>, fsl |-> << >>, str_filter |-> << >>, prev |-> switch_context,
     ctx |-> "Fileviewer", file_list |-> run_search_cmd(fd_list, << >>)]

\* A variant of the terminal toggle that returns to the context recorded.
TerminalCtrlTToPrev == [prev |-> switch_context, ctx |-> prev_context]

TerminalCtrlT == [prev |-> switch_context, ctx |-> "Fileviewer"]

EscInFileviewerOnly ==
    IF switch_context = "Fileviewer" THEN [exit |-> TRUE] ELSE NoUpdate

SetExit == [exit |-> TRUE]

\* ui::next_colorscheme
AdvanceScheme(from) ==
    LET index == (from + 1) % Len(COLORS)
    IN [cs_index |-> index,
        cs |-> COLORS[index + 1],
        hl |-> COLORS[((index + 1) % Len(COLORS)) + 1]]

next_colorscheme == AdvanceScheme(colorscheme_index)

\* The assignments of a handler, applied to the state.
Apply(u) ==
    /\ switch_context' = Get(u, "ctx", switch_context)
    /\ prev_context' = Get(u, "prev", prev_context)
    /\ switch_focus' = Get(u, "focus", switch_focus)
    /\ typed_input' = Get(u, "typed", typed_input)
    /\ hltd_file' = Get(u, "hltd", hltd_file)
    /\ file_list' = Get(u, "file_list", file_list)
    /\ file_str_list' = Get(u, "fsl", file_str_list)
    /\ recent_files' = Get(u, "recent", recent_files)
    /\ fd_list' = Get(u, "fd_list", fd_list)
    /\ current_str_filter' = Get(u, "str_filter", current_str_filter)
    /\ fsl_selected' = Get(u, "sel", RenderedSel)
    /\ exit' = Get(u, "exit", exit)
    /\ panicked' = Get(u, "panic", panicked)
    /\ term_out' = Get(u, "term_out", RenderedTermOut)
    /\ first_term_open' = Get(u, "first_open", first_term_open)
    /\ colorscheme_index' = Get(u, "cs_index", colorscheme_index)
    /\ colorscheme' = Get(u, "cs", colorscheme)
    /\ highlight_color' = Get(u, "hl", highlight_color)
    /\ disk' = Get(u, "disk", disk)
    /\ replaced' = Get(u, "replaced", replaced)

\* The history of the toggles: which toggle entered the context now active,
\* and from which context; forgotten when any other key changes the context.
NextOrigin(key) ==
    IF switch_context' = switch_context THEN toggle_origin
    ELSE IF key = "t" /\ switch_context' = "Terminal"
         THEN [kind |-> "term", from |-> switch_context]
    ELSE IF key = "h" /\ switch_context' = "Help"
         THEN [kind |-> "help", from |-> switch_context]
    ELSE NoOrigin

\* A variant of the dispatch in which Help has a handler of its own, which
\* does not filter.
FileviewerContextOnly == switch_context = "Fileviewer"

InFileviewerHandler == switch_context \in {"Fileviewer", "Help"}

\* ------------------------------------------------------ the content search
\* The matches a worker collects: per file of its list, in the order of the
\* list; a file that failed to open gives none.
RECURSIVE CollectFrom(_, _)
CollectFrom(w, i) ==
    IF i > Len(w.files) THEN << >>
    ELSE (IF i \in w.failed THEN << >> ELSE FileMatches(w.files[i], w.search))
         \o CollectFrom(w, i + 1)

Collected(w) == CollectFrom(w, 1)

NewWorker ==
    [files |-> file_list, search |-> to_lowercase(typed_input),
     todo |-> 1..Len(file_list), failed |-> {}, alone |-> workers = << >>,
     latest |-> TRUE]

\* Vuit::start_async_search; alone and latest are history: no other worker
\* was alive during the life of this one, and no job was started after it.
start_async_search ==
    /\ Len(workers) < MaxWorkers
    /\ workers' = Append([w \in 1..Len(workers) |->
                            [workers[w] EXCEPT !.alone = FALSE, !.latest = FALSE]],
                         NewWorker)
    /\ search_in_progress' = TRUE
    /\ search_progress' = 0
    /\ UNCHANGED search_result

\* A variant of the scan in which the thread reads the typed input and the
\* file list view of the application at each file instead of its own copies.
ScanOutcomeRereads(w, i, ok) ==
    [w EXCEPT !.todo = @ \ {i}, !.failed = IF ok THEN @ ELSE @ \cup {i},
              !.search = to_lowercase(typed_input),
              !.files = IF Len(file_list) = Len(w.files) THEN file_list ELSE @]

\* One file of the list is scanned by worker w: opened (or not), read, counted.
ScanOutcome(w, i, ok) ==
    [w EXCEPT !.todo = @ \ {i}, !.failed = IF ok THEN @ ELSE @ \cup {i}]

\* A variant of the scan that does not count a file that failed to open.
WorkerScanSkipsFailed(n, i, ok) ==
    /\ n \in 1..Len(workers)
    /\ i \in workers[n].todo
    /\ ok \/ workers[n].files[i] \in MayFailToOpen
    /\ workers' = [workers EXCEPT ![n] = ScanOutcome(workers[n], i, ok)]
    /\ search_progress' = IF ok THEN search_progress + 1 ELSE search_progress
    /\ UNCHANGED <<uiVars, tmux, toggle_origin, search_in_progress, search_result, termVars>>

WorkerScan(n, i, ok) ==
    /\ n \in 1..Len(workers)
    /\ i \in workers[n].todo
    /\ ok \/ workers[n].files[i] \in MayFailToOpen
    /\ workers' = [workers EXCEPT ![n] = ScanOutcome(workers[n], i, ok)]
    /\ search_progress' = search_progress + 1
    /\ UNCHANGED <<uiVars, tmux, toggle_origin, search_in_progress, search_result, termVars>>

\* Every file is scanned: the worker writes the result slot and ends.
WorkerDone(w) == w.todo = {}

\* A variant of the end of a job in which the thread stores its matches in
\* the content-match list itself.
WorkerFinishWritesList(n) ==
    /\ n \in 1..Len(workers)
    /\ WorkerDone(workers[n])
    /\ Apply([fsl |-> Collected(workers[n])])
    /\ workers' = RemoveAt(workers, n)
    /\ UNCHANGED <<tmux, toggle_origin, search_in_progress, search_progress,
                   search_result, termVars>>

WorkerFinish(n) ==
    /\ n \in 1..Len(workers)
    /\ WorkerDone(workers[n])
    /\ search_result' = <<Collected(workers[n])>>
    /\ workers' = RemoveAt(workers, n)
    /\ UNCHANGED <<uiVars, tmux, toggle_origin, search_in_progress, search_progress, termVars>>

\* A variant of the poll condition that does not look at the in-flight flag.
PollIgnoresFlag == search_progress = Len(file_list)

\* The idle branch of dispatch_event.
PollReady == search_in_progress /\ search_progress = Len(file_list)

IdlePoll ==
    /\ Running
    /\ IF PollReady /\ search_result # << >>
       THEN /\ Apply([fsl |-> search_result[1]])
            /\ search_in_progress' = FALSE
            /\ search_result' = << >>
       ELSE /\ Apply(NoUpdate)
            /\ UNCHANGED <<search_in_progress, search_result>>
    /\ UNCHANGED <<tmux, toggle_origin, search_progress, workers>>
    /\ TerminalDrawn

\* ------------------------------------------------------ the terminal session
WordVuit == <<"v", "u", "i", "t">>
WordExit == <<"e", "x", "i", "t">>
WordQuit == <<"q", "u", "i", "t">>
WordRestart == <<"r", "e", "s", "t", "a", "r", "t">>
WordClear == <<"c", "l", "e", "a", "r">>

\* str::trim_start_matches(';')
RECURSIVE TrimSemis(_)
TrimSemis(s) ==
    IF s # << >> /\ Head(s) = ";" THEN TrimSemis(Tail(s)) ELSE s

SendKindNoClear(command) ==
    IF command = WordVuit THEN "joke"
    ELSE IF command \in {WordExit, WordQuit} THEN "leave"
    ELSE IF command = WordRestart THEN "restart"
    ELSE "write"

SendKind(command) ==
    IF command = WordVuit THEN "joke"
    ELSE IF command \in {WordExit, WordQuit} THEN "leave"
    ELSE IF command \in {WordRestart, WordClear} THEN "restart"
    ELSE "write"

RestartKeepsOld ==
    /\ bash_process < MaxRestarts
    /\ bash_process' = bash_process + 1
    /\ command_sender' = bash_process + 1
    /\ readers' = readers \cup {bash_process + 1}
    /\ live_shells' = live_shells \cup {bash_process + 1}
    /\ UNCHANGED <<shell_in, pty_out, term_fault>>

\* restart_terminal_session: the child is killed, start_term makes the next
\* session; the reader thread of the old session is left to itself, and the
\* shared buffer process_out is kept.
restart_terminal_session ==
    /\ bash_process < MaxRestarts
    /\ bash_process' = bash_process + 1
    /\ command_sender' = bash_process + 1
    /\ readers' = readers \cup {bash_process + 1}
    /\ live_shells' = (live_shells \ {bash_process}) \cup {bash_process + 1}
    /\ shell_in' = [shell_in EXCEPT ![bash_process] = << >>]
    /\ UNCHANGED <<pty_out, term_fault>>

ErrorIgnored == NoUpdate

\* expect() on the result of child.kill(), openpty and spawn_command: an
\* error panics.
FatalError == Panic

\* restart_terminal_session when child.kill(), openpty or spawn_command
\* fails: the expect() panics; after a failed kill nothing was killed, after
\* a failed start the old shell is dead and no session was made.
RestartAborts ==
    \E fault \in {"kill"} \cup StartFaults :
        /\ term_fault' = fault
        /\ live_shells' = IF fault = "kill" THEN live_shells
                          ELSE live_shells \ {bash_process}
        /\ UNCHANGED <<bash_process, command_sender, readers, shell_in, pty_out>>

WriteFailureRestarts(item, ok) ==
    IF ok
    THEN /\ Len(shell_in[command_sender]) < MaxPending
         /\ shell_in' = [shell_in EXCEPT ![command_sender] = Append(@, item)]
         /\ UNCHANGED <<bash_process, command_sender, readers, pty_out, live_shells,
                        term_fault>>
    ELSE restart_terminal_session

\* A write to the writer held: it reaches the shell, or fails and is swallowed.
WriteToShell(item, ok) ==
    /\ ok => Len(shell_in[command_sender]) < MaxPending
    /\ shell_in' = IF ok THEN [shell_in EXCEPT ![command_sender] = Append(@, item)]
                   ELSE shell_in
    /\ UNCHANGED <<bash_process, command_sender, readers, pty_out, live_shells, term_fault>>

\* send_cmd_to_proc_term on the text typed, followed by the assignments u
\* of the handler that called it and typed_input.clear(); clear says that
\* process_out is cleared afterwards; ok says that the system calls made
\* succeed.
send_cmd_to_proc_term(typed, u, clear, ok) ==
    LET command == TrimSemis(typed)
        kind == SendKind(command)
        done == [typed |-> << >>]
        cleared == process_out' = IF clear THEN << >> ELSE RenderedOut
        aborted == RestartAborts /\ Apply(FatalError) /\ process_out' = RenderedOut
    IN CASE kind = "joke" ->
                 /\ ok
                 /\ Apply(done @@ u @@ [term_out |-> JokeMessage])
                 /\ UNCHANGED shellVars
                 /\ cleared
         [] kind = "leave" ->
                 IF ok
                 THEN /\ restart_terminal_session
                      /\ Apply(done @@ [ctx |-> "Fileviewer", prev |-> "Terminal"] @@ u)
                      /\ cleared
                 ELSE aborted
         [] kind = "restart" ->
                 IF ok
                 THEN /\ restart_terminal_session
                      /\ Apply(done @@ u)
                      /\ cleared
                 ELSE aborted
         [] kind = "write" ->
                 /\ WriteToShell(command \o <<"\n">>, ok)
                 /\ Apply(done @@ u)
                 /\ cleared

AbsPath(rel) == <<"/", "w", "/">> \o rel

\* The shell of the live session reads a command; respond says that it
\* writes a line of output.
ShellRead(s, respond) ==
    /\ s \in live_shells
    /\ shell_in[s] # << >>
    /\ shell_in' = [shell_in EXCEPT ![s] = Tail(@)]
    /\ pty_out' = IF respond
                  THEN [pty_out EXCEPT ![s] = Append(@, [sess |-> s, text |-> Head(shell_in[s])])]
                  ELSE pty_out
    /\ respond => Len(pty_out[s]) < MaxPending
    /\ UNCHANGED <<uiVars, tmux, toggle_origin, searchVars, bash_process, command_sender,
                   process_out, readers, live_shells, term_fault>>

\* The reader thread of session s reads a line and appends it to the buffer.
ReaderAppend(s) ==
    /\ s \in readers
    /\ pty_out[s] # << >>
    /\ Len(process_out) < MaxBuf
    /\ process_out' = Append(process_out, Head(pty_out[s]))
    /\ pty_out' = [pty_out EXCEPT ![s] = Tail(@)]
    /\ UNCHANGED <<uiVars, tmux, toggle_origin, searchVars, bash_process, command_sender,
                   shell_in, readers, live_shells, term_fault>>

\* The reader thread of a killed session, with nothing left to read: the
\* read ends the iteration (end of file), or fails and the default line is
\* pushed (line.ok().unwrap_or_default()).
ReaderAfterKill(s, eof) ==
    /\ s \in readers
    /\ s < bash_process
    /\ pty_out[s] = << >>
    /\ IF eof
       THEN /\ readers' = readers \ {s}
            /\ UNCHANGED process_out
       ELSE /\ Len(process_out) < MaxBuf
            /\ process_out' = Append(process_out, [sess |-> s, text |-> << >>])
            /\ UNCHANGED readers
    /\ UNCHANGED <<uiVars, tmux, toggle_origin, searchVars, bash_process, command_sender,
                   shell_in, pty_out, live_shells, term_fault>>

\* ------------------------------------------------- the keys (dispatch_event)
\* A key that only the handler's assignments answer: no search is started
\* and the terminal session is not touched.
Handled(u, key) ==
    /\ Running
    /\ Apply(u)
    /\ toggle_origin' = NextOrigin(key)
    /\ UNCHANGED <<tmux, searchVars>>
    /\ TerminalDrawn

KeyChar(c) ==
    Handled(IF InFileviewerHandler THEN FileviewerChar(c) ELSE PlainChar(c), "char")

KeyBackspace ==
    Handled(IF InFileviewerHandler THEN FileviewerBackspace ELSE PlainBackspace, "bs")

KeyEsc == Handled(SetExit, "esc")

KeyDown == Handled(IF switch_context = "Terminal" THEN NoUpdate ELSE NavDown, "down")

KeyUp == Handled(IF switch_context = "Terminal" THEN NoUpdate ELSE NavUp, "up")

KeyTab == Handled(IF switch_context = "Terminal" THEN NoUpdate ELSE NavTab, "tab")

KeyCtrlF ==
    Handled(CASE InFileviewerHandler -> FileviewerCtrlF
              [] switch_context = "Stringsearch" -> StringsearchCtrlF
              [] switch_context = "Stringsearchreplace" -> StringsearchreplaceCtrlF
              [] switch_context = "Terminal" -> NoUpdate,
            "f")

KeyCtrlR ==
    Handled(IF switch_context = "Stringsearchreplace" THEN StringsearchreplaceCtrlR
            ELSE Rescan,
            "r")

\* A variant of the terminal toggle that restarts the session when Terminal
\* context is left.
KeyCtrlTRestarts ==
    /\ Running
    /\ Apply(CASE InFileviewerHandler -> FileviewerCtrlT
              [] switch_context = "Terminal" -> TerminalCtrlT
              [] OTHER -> NoUpdate)
    /\ toggle_origin' = NextOrigin("t")
    /\ UNCHANGED <<tmux, searchVars>>
    /\ process_out' = RenderedOut
    /\ IF switch_context = "Terminal" THEN restart_terminal_session
       ELSE UNCHANGED shellVars

KeyCtrlT ==
    Handled(CASE InFileviewerHandler -> FileviewerCtrlT
              [] switch_context = "Terminal" -> TerminalCtrlT
              [] OTHER -> NoUpdate,
            "t")

KeyCtrlH == Handled(IF InFileviewerHandler THEN FileviewerCtrlH ELSE OtherCtrlH, "h")

\* Ctrl-n, the same arm in every handler.
KeyCtrlN == Handled(next_colorscheme, "n")

\* Enter in Terminal context.
TerminalEnter(ok) ==
    /\ send_cmd_to_proc_term(typed_input, [first_open |-> FALSE], TRUE, ok)
    /\ UNCHANGED <<tmux, searchVars>>

\* Enter in Stringsearch context.
StringsearchEnter ==
    IF MatchSelected
    THEN /\ Apply(OpenSelectedMatch)
         /\ UNCHANGED <<tmux, searchVars>>
         /\ TerminalDrawn
    ELSE /\ start_async_search
         /\ Apply(NoUpdate)
         /\ UNCHANGED tmux
         /\ TerminalDrawn

StringsearchreplaceEnter ==
    /\ Apply(IF MatchSelected THEN OpenSelectedMatch ELSE replace_string_occurences)
    /\ UNCHANGED <<tmux, searchVars>>
    /\ TerminalDrawn

KeyEnter(ok) ==
    /\ Running
    /\ CASE InFileviewerHandler ->
              /\ ok
              /\ Apply(FileviewerEnter)
              /\ UNCHANGED <<tmux, searchVars>>
              /\ TerminalDrawn
         [] switch_context = "Stringsearch" -> ok /\ StringsearchEnter
         [] switch_context = "Stringsearchreplace" -> ok /\ StringsearchreplaceEnter
         [] switch_context = "Terminal" -> TerminalEnter(ok)
    /\ toggle_origin' = NextOrigin("enter")

\* Ctrl-x of the fileviewer handler: the highlighted entry is run in the
\* terminal session.
FileviewerCtrlX(ok) ==
    IF hltd_file >= Len(FocusedList)
    THEN /\ ok
         /\ Apply(Panic)
         /\ TerminalDrawn
    ELSE IF tmux
    THEN send_cmd_to_proc_term(typed_input, [first_open |-> FALSE], FALSE, ok)
    ELSE send_cmd_to_proc_term(AbsPath(FocusedList[hltd_file + 1]),
                               [prev |-> switch_context, ctx |-> "Terminal",
                                first_open |-> FALSE], FALSE, ok)

KeyCtrlX(ok) ==
    /\ Running
    /\ CASE InFileviewerHandler -> FileviewerCtrlX(ok)
         [] switch_context \in {"Stringsearch", "Stringsearchreplace"} ->
              /\ ok
              /\ Apply(RemoveRecent)
              /\ TerminalDrawn
         [] switch_context = "Terminal" ->
              /\ ok
              /\ Apply(NoUpdate)
              /\ TerminalDrawn
    /\ toggle_origin' = NextOrigin("x")
    /\ UNCHANGED <<tmux, searchVars>>

KeyCtrlCLine(ok) ==
    /\ Running
    /\ IF switch_context = "Terminal"
       THEN WriteToShell(<<"ETX", "\n">>, ok)
       ELSE ok /\ UNCHANGED shellVars
    /\ Apply(NoUpdate)
    /\ toggle_origin' = NextOrigin("c")
    /\ process_out' = RenderedOut
    /\ UNCHANGED <<tmux, searchVars>>

\* Ctrl-c in Terminal context writes the interrupt byte.
KeyCtrlC(ok) ==
    /\ Running
    /\ IF switch_context = "Terminal"
       THEN WriteToShell(<<"ETX">>, ok)
       ELSE ok /\ UNCHANGED shellVars
    /\ Apply(NoUpdate)
    /\ toggle_origin' = NextOrigin("c")
    /\ process_out' = RenderedOut
    /\ UNCHANGED <<tmux, searchVars>>

\* ------------------------------------------------------------ specifications
\* The steps of the background threads.
WorkerStep ==
    \/ \E n \in 1..MaxWorkers, i \in 1..Len(DiskFiles), ok \in BOOLEAN : WorkerScan(n, i, ok)
    \/ \E n \in 1..MaxWorkers : WorkerFinish(n)

ShellStep ==
    \/ \E s \in Sessions, respond \in BOOLEAN : ShellRead(s, respond)
    \/ \E s \in Sessions : ReaderAppend(s)
    \/ \E s \in Sessions, eof \in BOOLEAN : ReaderAfterKill(s, eof)

\* The whole program: every key at every moment, every thread.
Next ==
    \/ \E c \in Chars : Len(typed_input) < MaxInput /\ KeyChar(c)
    \/ KeyBackspace
    \/ \E ok \in BOOLEAN : KeyEnter(ok)
    \/ KeyEsc
    \/ KeyDown
    \/ KeyUp
    \/ KeyTab
    \/ KeyCtrlF
    \/ KeyCtrlR
    \/ KeyCtrlT
    \/ KeyCtrlH
    \/ KeyCtrlN
    \/ \E ok \in BOOLEAN : KeyCtrlX(ok)
    \/ \E ok \in BOOLEAN : KeyCtrlC(ok)
    \/ IdlePoll
    \/ WorkerStep
    \/ ShellStep

Spec == Init /\ [][Next]_vars

\* The run loop was entered (start_term succeeded) with the default
\* configuration.
Started == term_fault = "none"

DefaultScheme ==
    /\ colorscheme = DefaultConfig.colorscheme
    /\ highlight_color = DefaultConfig.highlight_color

\* The dispatcher: every key of every handler, pressed while no search job
\* is in flight (a started job runs to its end and is polled before the next
\* key); the shell accepts no input (every write fails and is swallowed).
Quiet == workers = << >> /\ ~search_in_progress

NextDispatcher ==
    \/ \E c \in Chars : Quiet /\ Len(typed_input) < MaxInput /\ KeyChar(c)
    \/ Quiet /\ KeyBackspace
    \/ \E ok \in BOOLEAN : Quiet /\ KeyEnter(ok) /\ UNCHANGED shell_in
    \/ Quiet /\ KeyEsc
    \/ Quiet /\ KeyDown
    \/ Quiet /\ KeyUp
    \/ Quiet /\ KeyTab
    \/ Quiet /\ KeyCtrlF
    \/ Quiet /\ KeyCtrlR
    \/ Quiet /\ KeyCtrlT
    \/ Quiet /\ KeyCtrlH
    \/ \E ok \in BOOLEAN : Quiet /\ KeyCtrlX(ok) /\ UNCHANGED shell_in
    \/ \E ok \in BOOLEAN : Quiet /\ KeyCtrlC(ok) /\ UNCHANGED shell_in
    \/ IdlePoll
    \/ WorkerStep

InitDispatcher == Init /\ Started /\ DefaultScheme /\ ~first_term_open

SpecDispatcher == InitDispatcher /\ [][NextDispatcher]_vars

\* The same with a user who keeps pressing keys and a loop that keeps
\* running: a step is taken as long as one can be.
SpecDispatcherFair == SpecDispatcher /\ WF_vars(NextDispatcher)

\* The content search: the keys of Fileviewer and Stringsearch that type,
\* move, switch between the two contexts, rescan and start searches, pressed
\* at any moment of the jobs in flight; no file is opened in the editor.
StartsSearch == switch_context = "Stringsearch" /\ ~MatchSelected

NextSearch ==
    \/ \E c \in Chars : Len(typed_input) < MaxInput /\ KeyChar(c)
    \/ KeyBackspace
    \/ StartsSearch /\ KeyEnter(TRUE)
    \/ KeyDown
    \/ KeyUp
    \/ KeyTab
    \/ KeyCtrlF
    \/ KeyCtrlR
    \/ IdlePoll
    \/ WorkerStep

InitSearch == Init /\ ~tmux /\ Started /\ DefaultScheme /\ first_term_open

SpecSearch == InitSearch /\ [][NextSearch]_vars

\* The same, with the scheduling of the run loop and of the threads: idle
\* ticks keep occurring, and a worker thread that can take a step takes it.
SpecSearchFair ==
    InitSearch /\ [][NextSearch]_vars /\ SF_vars(IdlePoll) /\ WF_vars(WorkerStep)

\* The content search with the open action: the same keys, and Enter on a
\* selected match while no file was opened yet.
SpecOpen ==
    InitSearch
    /\ [][NextSearch \/ (MatchSelected /\ recent_files = << >> /\ KeyEnter(TRUE))]_vars

\* The terminal session: the keys of Terminal context, the words the user
\* types there, the shell and the reader threads.
TermWords == {<<"a">>, WordClear}

Typeable(t) ==
    \E w \in TermWords : Len(t) <= Len(w) /\ SubSeq(w, 1, Len(t)) = t

InTerminal == switch_context = "Terminal"

NextTerminal ==
    \/ \E c \in {"a", "c", "l", "e", "r"} :
          InTerminal /\ Typeable(Append(typed_input, c)) /\ KeyChar(c)
    \/ InTerminal /\ KeyBackspace
    \/ \E ok \in BOOLEAN : InTerminal /\ KeyEnter(ok)
    \/ \E ok \in BOOLEAN : InTerminal /\ KeyCtrlC(ok)
    \/ KeyCtrlT
    \/ ShellStep

InitTerminal == Init /\ ~tmux /\ Started /\ DefaultScheme /\ first_term_open

SpecTerminal == InitTerminal /\ [][NextTerminal]_vars

\* The threads: a content search and a terminal session side by side.  The
\* user opens either context, starts a search when none is in flight, types
\* and sends whole words in Terminal context; the workers, the shell and the
\* reader threads step at any moment.
NextThreads ==
    \/ \E c \in {"a", "c", "l", "e", "r"} :
          InTerminal /\ Typeable(Append(typed_input, c)) /\ KeyChar(c)
    \/ \E ok \in BOOLEAN : InTerminal /\ typed_input \in TermWords /\ KeyEnter(ok)
    \/ StartsSearch /\ Quiet /\ KeyEnter(TRUE)
    \/ KeyCtrlF
    \/ KeyCtrlT
    \/ IdlePoll
    \/ WorkerStep
    \/ ShellStep

SpecThreads == InitSearch /\ [][NextThreads]_vars

\* The send of a command: the terminal was opened from Fileviewer by the
\* toggle and a command was typed; then Enter, the interrupt, more typing,
\* the toggle, the shell and the reader threads.
WordExitUpper == <<"E", "X", "I", "T">>

SendWords ==
    {WordExit, WordQuit, WordRestart, WordClear, WordVuit, WordExitUpper,
     <<";">> \o WordExit, <<";", ";">> \o WordClear, <<";">> \o WordVuit,
     WordExit \o <<" ">>}

InitSend ==
    /\ InitApp
    /\ InitUntouched
    /\ Started
    /\ DefaultScheme
    /\ ~tmux
    /\ switch_context = "Terminal"
    /\ typed_input \in SendWords
    /\ toggle_origin = [kind |-> "term", from |-> "Fileviewer"]

NextSend ==
    \/ \E ok \in BOOLEAN : InTerminal /\ KeyEnter(ok)
    \/ \E ok \in BOOLEAN : InTerminal /\ KeyCtrlC(ok)
    \/ \E c \in Chars : InTerminal /\ Len(typed_input) < MaxInput /\ KeyChar(c)
    \/ KeyCtrlT
    \/ ShellStep

\* The program whose first session could not be started: it has aborted
\* before the loop.
InitFailedStart == Init /\ ~Started /\ DefaultScheme /\ ~tmux /\ first_term_open

SpecSend == (InitSend \/ InitFailedStart) /\ [][NextSend]_vars

\* The same with the scheduling of the threads: a reader thread that can
\* take a step takes it, whatever the outcome of its read.
SpecSendFair ==
    /\ SpecSend
    /\ \A s \in Sessions :
          /\ WF_vars(ReaderAppend(s))
          /\ WF_vars(\E eof \in BOOLEAN : ReaderAfterKill(s, eof))

\* The item that Enter in Terminal context writes to the shell.
SentItem == TrimSemis(typed_input) \o <<"\n">>

\* Enter in Terminal context while the threads of the session run: between
\* the write of the command (send_cmd_to_proc_term) and the lock taken for
\* process_out.clear(), the shell reads the command and answers, and the
\* reader thread takes the lock and appends the answer; the clear of the
\* handler then removes it with the rest of the buffer.
TerminalEnterOverlapped ==
    /\ Running
    /\ switch_context = "Terminal"
    /\ SendKind(TrimSemis(typed_input)) = "write"
    /\ command_sender \in live_shells \cap readers
    /\ shell_in[command_sender] = << >>
    /\ pty_out[command_sender] = << >>
    /\ LET appended == Append(RenderedOut, [sess |-> command_sender, text |-> SentItem])
       IN /\ Len(appended) <= MaxBuf
          /\ process_out' = SubSeq(appended, 1, 0)
    /\ Apply([typed |-> << >>, first_open |-> FALSE])
    /\ toggle_origin' = NextOrigin("enter")
    /\ UNCHANGED <<tmux, searchVars, shellVars>>

\* The send with the threads of the session at any moment of the handler:
\* writes succeed, and the shell and the reader thread step between the
\* handlers and between the write and the clear of Enter.
NextOverlap ==
    \/ \E c \in Chars : InTerminal /\ Len(typed_input) < MaxInput /\ KeyChar(c)
    \/ InTerminal /\ KeyEnter(TRUE)
    \/ TerminalEnterOverlapped
    \/ KeyCtrlT
    \/ ShellStep

SpecOverlap == InitSend /\ [][NextOverlap]_vars

\* The replace of search-and-replace, applied to drawn inputs: the files,
\* the content matches held, the filter recorded and the replacement typed.
MaxHeld == 2

ReplaceContents ==
    {<< >>,
     <<"a", "\n", "b">>,
     <<"a", "b", "\n", "b", "b", "\n">>,
     <<"b", "\n", "a", "\n", "b", "\n">>}

HeldEntry(path, number) == path \o <<":">> \o FmtNat(number) \o <<":">> \o <<"b">>

\* A search result holds one entry for a line.
HeldLists ==
    {held \in UNION {[1..n -> {HeldEntry(p, k) : p \in DiskPaths, k \in 0..3}] :
                       n \in 0..MaxHeld} :
        \A i, j \in 1..Len(held) : held[i] = held[j] => i = j}

ReplaceDisks ==
    {[p \in DiskPaths |->
        IF p = PathA THEN [content |-> ca, readable |-> TRUE, writable |-> TRUE]
        ELSE [content |-> cb, readable |-> r, writable |-> w]] :
     ca \in ReplaceContents, cb \in ReplaceContents, r \in BOOLEAN, w \in BOOLEAN}

InitReplace ==
    /\ InitApp
    /\ Started
    /\ DefaultScheme
    /\ ~tmux
    /\ ~first_term_open
    /\ switch_context = "Stringsearchreplace"
    /\ toggle_origin = NoOrigin
    /\ typed_input \in {<< >>, <<"c">>, <<"b", "a">>}
    /\ current_str_filter \in {<< >>, <<"b">>, <<"b", "b">>}
    /\ file_str_list \in HeldLists
    /\ disk \in ReplaceDisks
    /\ fd_list = run_fd_cmd
    /\ file_list = run_search_cmd(run_fd_cmd, << >>)

SpecReplace == InitReplace /\ [][KeyEnter(TRUE)]_vars

\* The fuzzy filter, applied to drawn inputs: the file index that the walk
\* found, and the query typed and erased in Fileviewer context.
MaxIndex == 3

MaxQuery == 2

\* File names; "U+00E4" stands for the one character a with diaeresis,
\* which is neither ASCII nor a space.
IndexPaths == {<<"a">>, <<"b", "a">>, <<"A", "b">>, <<"U+00E4", "a">>, <<"b">>}

FilterIndexes ==
    {fd \in UNION {[1..n -> IndexPaths] : n \in 0..MaxIndex} :
        \A i, j \in 1..Len(fd) : fd[i] = fd[j] => i = j}

InitFilter ==
    /\ InitApp
    /\ Started
    /\ DefaultScheme
    /\ ~tmux
    /\ ~first_term_open
    /\ switch_context = "Fileviewer"
    /\ toggle_origin = NoOrigin
    /\ typed_input = << >>
    /\ current_str_filter = << >>
    /\ file_str_list = << >>
    /\ disk = [p \in {} |-> << >>]
    /\ fd_list \in FilterIndexes
    /\ file_list = run_search_cmd(fd_list, << >>)

NextFilter ==
    \/ \E c \in {"a", "b"} : Len(typed_input) < MaxQuery /\ KeyChar(c)
    \/ KeyBackspace

SpecFilter == InitFilter /\ [][NextFilter]_vars

\* Typing in every context: the handlers of the five contexts, each entered
\* with an index of the world above and an empty command line, take
\* characters, backspaces and the move down.
InitTyping ==
    /\ InitApp
    /\ Started
    /\ DefaultScheme
    /\ ~tmux
    /\ ~first_term_open
    /\ switch_context \in Contexts
    /\ toggle_origin = CASE switch_context = "Terminal" -> [kind |-> "term", from |-> "Fileviewer"]
                          [] switch_context = "Help" -> [kind |-> "help", from |-> "Fileviewer"]
                          [] OTHER -> NoOrigin
    /\ typed_input = << >>
    /\ current_str_filter = << >>
    /\ file_str_list = << >>
    /\ disk = [p \in {} |-> << >>]
    /\ fd_list \in FilterIndexes
    /\ file_list = run_search_cmd(fd_list, << >>)

SpecTyping == InitTyping /\ [][NextFilter \/ KeyDown]_vars

\* The color schemes: the key that advances the scheme, pressed in every
\* context, with the keys that change the context.
NextColors ==
    \/ KeyCtrlN
    \/ KeyCtrlF
    \/ KeyCtrlT
    \/ KeyCtrlH
    \/ \E c \in Chars : Len(typed_input) < MaxInput /\ KeyChar(c)

InitColors == Init /\ Started /\ ~first_term_open

SpecColors == InitColors /\ [][NextColors]_vars

\* ------------------------------------------------------------ the properties
\* C1: whenever the list owned by the Focus is non-empty, the highlighted
\* index is strictly less than its length, after every key and every poll
\* step (the poll step that installs the results of a search included).
C1_HighlightInRange ==
    FocusedList # << >> => hltd_file < Len(FocusedList)

\* C2: while a job is in flight (started, its result not yet consumed by the
\* poll step), no step starts another worker on the same counter and slot.
C2_NoSecondJob ==
    [][search_in_progress => Len(workers') <= Len(workers)]_vars

\* C3: once the worker has scanned every file and written the result slot,
\* a later idle tick installs the result and clears the in-flight flag,
\* whatever keys are handled meanwhile, idle ticks occurring again and again.
C3_EventuallyInstalled ==
    (search_in_progress /\ workers = << >> /\ search_result # << >>)
        ~> ~search_in_progress

\* C4: for a single job over its file list, the progress counter is the
\* number of files scanned so far (0 at the start, one more per file, failed
\* opens included, the length of the list at the end), and the result slot is
\* written once, by a worker that has counted every file and then ends.
SingleJob == Len(workers) = 1 /\ workers[1].alone

Scanned(w) == Len(w.files) - Cardinality(w.todo)

C4_SlotWrittenAtEnd ==
    (search_result' # search_result /\ search_result' # << >>) =>
        \E n \in 1..Len(workers) :
            /\ workers[n].todo = {}
            /\ workers[n].alone => search_progress = Len(workers[n].files)
            /\ workers' = RemoveAt(workers, n)
            /\ search_result' = <<Collected(workers[n])>>

C4_CountsUp ==
    (SingleJob /\ SingleJob') =>
        /\ search_progress' \in {search_progress, search_progress + 1}
        /\ search_progress' = search_progress => workers' = workers

C4_ProgressCountsFiles ==
    /\ [](SingleJob => search_progress = Scanned(workers[1]))
    /\ [][C4_SlotWrittenAtEnd /\ C4_CountsUp]_vars

\* Reached: a single job has counted both files, one of which failed to open.
C4_Witness ==
    /\ SingleJob
    /\ Len(workers[1].files) = 2
    /\ workers[1].todo = {}
    /\ workers[1].failed # {}
    /\ search_progress = 2

\* C5: the result slot is emptied only by the poll step, only when a job is
\* in flight and the counter equals the length of the file list, and that
\* step installs the contents and clears the in-flight flag; the flag is
\* cleared by no other step; every other change of the slot is the write of
\* a worker that ends; no other step installs or takes anything.
TakesResult == search_result # << >> /\ search_result' = << >>

C5_TakeOnlyWhenReady ==
    TakesResult =>
        /\ search_in_progress
        /\ search_progress = Len(file_list)
        /\ file_str_list' = search_result[1]
        /\ ~search_in_progress'

C5_OnlyTakeCompletes ==
    (search_in_progress /\ ~search_in_progress') => TakesResult

C5_OtherwiseWorkerWrite ==
    (search_result' # search_result /\ ~TakesResult) =>
        /\ Len(workers') < Len(workers)
        /\ UNCHANGED <<file_str_list, search_in_progress>>

C5_ConsumedOnce ==
    [][C5_TakeOnlyWhenReady /\ C5_OnlyTakeCompletes /\ C5_OtherwiseWorkerWrite]_vars

\* Reached: the poll step has installed a result with matches and emptied
\* the slot (only the poll step makes the content-match list non-empty).
C5_Witness ==
    /\ ~search_in_progress
    /\ search_result = << >>
    /\ file_str_list # << >>
    /\ workers = << >>

\* C6: recent_files never holds more than 5 entries; an open action that
\* pushes a sixth entry removes the oldest one.
PushesRecent ==
    /\ \E ok \in BOOLEAN : KeyEnter(ok)
    /\ IF InFileviewerHandler
       THEN /\ switch_focus = "Filelist"
            /\ hltd_file < Len(file_list)
            /\ ~Contains(recent_files, file_list[hltd_file + 1])
       ELSE /\ switch_context \in {"Stringsearch", "Stringsearchreplace"}
            /\ MatchSelected
            /\ hltd_file < Len(file_str_list)
            /\ ~Contains(recent_files, file_str_list[hltd_file + 1])

PushedPath ==
    IF InFileviewerHandler THEN file_list[hltd_file + 1]
    ELSE BeforeColon(file_str_list[hltd_file + 1])

C6_SixthEvictsOldest ==
    (PushesRecent /\ Len(recent_files) = RecentCap) =>
        recent_files' = Append(Tail(recent_files), PushedPath)

C6_RecentBounded ==
    /\ [](Len(recent_files) <= RecentCap)
    /\ [][C6_SixthEvictsOldest]_vars

\* Reached: recent_files is full and an open action that pushes is at hand.
C6_Witness ==
    /\ Len(recent_files) = RecentCap
    /\ switch_context = "Stringsearch"
    /\ MatchSelected
    /\ hltd_file < Len(file_str_list)
    /\ Quiet

\* C7: recent_files never contains the same path twice, whether entries are
\* opened from the file list in Fileviewer or from the content-match list in
\* Stringsearch.
C7_NoDuplicates ==
    \A i, j \in 1..Len(recent_files) :
        i # j => recent_files[i] # recent_files[j]

\* C8: after a restart no line of output of the old shell is appended to
\* the output buffer: every line appended comes from the current session.
C8_NoOldOutput ==
    [][(Len(process_out') = Len(process_out) + 1
            /\ process_out'[Len(process_out')].text # << >>)
        => process_out'[Len(process_out')].sess = bash_process]_vars

\* C9, as stated: a second terminal toggle, with no other context-changing
\* key after the toggle that entered Terminal, makes the entering context
\* (Fileviewer or Help) active again.
C9_ReturnsToEntering ==
    [][(KeyCtrlT /\ switch_context = "Terminal" /\ toggle_origin.kind = "term")
        => switch_context' = toggle_origin.from]_vars

\* C9, amended: the terminal toggle pressed in Terminal context makes
\* Fileviewer the active context and records Terminal as the previous one,
\* whatever context Terminal was entered from.
C9_ReturnsToFileviewer ==
    [][(KeyCtrlT /\ switch_context = "Terminal")
        => (switch_context' = "Fileviewer" /\ prev_context' = "Terminal")]_vars

\* Reached: the terminal toggle has left Terminal context.
C9_Witness ==
    /\ switch_context = "Fileviewer"
    /\ prev_context = "Terminal"
    /\ ~tmux

\* C10: a second help toggle, with no other context-changing key after the
\* toggle that entered Help from context C, makes C the active context again.
C10_HelpReturns ==
    [][(KeyCtrlH /\ switch_context = "Help" /\ toggle_origin.kind = "help")
        => switch_context' = toggle_origin.from]_vars

\* Reached: Help, entered from Stringsearch, has been left by the toggle.
C10_Witness ==
    /\ switch_context = "Stringsearch"
    /\ prev_context = "Stringsearch"

\* ---------------------------------------------------------------------------
\* The text sent with its leading semicolons dropped.
LeadingSemis(s) ==
    CHOOSE k \in 0..Len(s) :
        /\ \A i \in 1..k : s[i] = ";"
        /\ k = Len(s) \/ s[k + 1] # ";"

Stripped(s) == SubSeq(s, LeadingSemis(s) + 1, Len(s))

\* Enter in Terminal context with every system call succeeding.
SendStep == InTerminal /\ KeyEnter(TRUE)

NothingWritten == \A s \in Sessions : Len(shell_in'[s]) <= Len(shell_in[s])

\* C11: send classifies the text typed, after its leading `;` are stripped,
\* by exact comparison: exit, quit, restart and clear restart the session and
\* write nothing to the shell, exit and quit make Fileviewer the context,
\* restart and clear leave it Terminal; every other text but vuit (EXIT, or
\* exit followed by a space) is written to the shell of the session with a
\* newline after it, and the session is not restarted.
C11_SendClassifies ==
    [][SendStep =>
        LET command == Stripped(typed_input)
        IN IF command \in {WordExit, WordQuit, WordRestart, WordClear}
           THEN /\ bash_process' = bash_process + 1
                /\ NothingWritten
                /\ switch_context' = IF command \in {WordExit, WordQuit}
                                     THEN "Fileviewer" ELSE "Terminal"
           ELSE command # WordVuit =>
                /\ bash_process' = bash_process
                /\ shell_in' = [shell_in EXCEPT ![bash_process] =
                                    Append(@, command \o <<"\n">>)]
                /\ switch_context' = "Terminal"]_vars

\* EXIT, which is no command of the terminal, was written to the shell.
C11_Witness ==
    /\ bash_process = 0
    /\ shell_in[0] = <<WordExitUpper \o <<"\n">>>>

\* ---------------------------------------------------------------------------
\* What the next render shows as the terminal output.
ShownNext == RenderedTermOut

\* C12: sending vuit writes nothing to the shell and restarts no session, and
\* the terminal output that the next render shows is the joke message.
C12_JokeShown ==
    [][(SendStep /\ Stripped(typed_input) = WordVuit) =>
        /\ NothingWritten
        /\ bash_process' = bash_process
        /\ ShownNext' = JokeMessage]_vars

\* ---------------------------------------------------------------------------
\* C13: a restart kills the child held before the next one is spawned, so
\* there are never two live shells; while the program runs, the child handle
\* and the writer held are those of the one live shell, and what is sent
\* after a restart reaches the shell of the new session only.
C13_OneLiveShell ==
    /\ [](/\ Cardinality(live_shells) <= 1
          /\ ~panicked => live_shells = {bash_process} /\ command_sender = bash_process)
    /\ [][/\ bash_process' # bash_process =>
                bash_process \notin live_shells' /\ live_shells' = {bash_process'}
          /\ \A s \in Sessions :
                Len(shell_in'[s]) > Len(shell_in[s]) =>
                    s = bash_process /\ s \in live_shells /\ bash_process' = bash_process]_vars

\* A command sent after a restart waits in the input of the new shell.
C13_Witness ==
    /\ bash_process = 1
    /\ shell_in[1] # << >>
    /\ shell_in[0] = << >>

\* ---------------------------------------------------------------------------
\* C14: a failure to kill the child during a restart, or to open the PTY or
\* to spawn the shell during a start, aborts the program: no session is made
\* after the failure and no further key is handled.
C14_FailureAborts ==
    /\ [](term_fault # "none" => panicked)
    /\ [][/\ term_fault' # term_fault =>
                /\ panicked'
                /\ bash_process' = bash_process
                /\ command_sender' = command_sender
                /\ readers' = readers
                /\ live_shells' \subseteq live_shells
          /\ panicked =>
                /\ UNCHANGED <<uiVars, toggle_origin, bash_process, command_sender,
                               readers, live_shells, term_fault>>
                /\ \A s \in Sessions : Len(shell_in'[s]) <= Len(shell_in[s])]_vars

\* The shell of a restart could not be spawned: the old one is dead, no new
\* one was made.
C14_Witness ==
    /\ term_fault = "spawn"
    /\ switch_context = "Terminal"
    /\ bash_process = 0
    /\ live_shells = {}

\* ---------------------------------------------------------------------------
\* A send whose write fails, and an interrupt whose write fails.
FailedSend ==
    /\ InTerminal
    /\ Stripped(typed_input) \notin {WordVuit, WordExit, WordQuit, WordRestart, WordClear}
    /\ KeyEnter(FALSE)

FailedInterrupt == InTerminal /\ KeyCtrlC(FALSE)

\* C15: a write that fails during a send or an interrupt is swallowed: the
\* program does not abort, the session is not restarted, the context stays
\* Terminal, and the writer held, on which a later send is attempted, is the
\* same.
C15_FailedWriteSwallowed ==
    [][(FailedSend \/ FailedInterrupt) =>
        /\ ~panicked' /\ ~exit'
        /\ bash_process' = bash_process
        /\ command_sender' = command_sender
        /\ live_shells' = live_shells
        /\ term_fault' = term_fault
        /\ switch_context' = "Terminal"]_vars

\* After a send that left nothing in the shell, the next command is typed
\* in the session that was there from the start.
C15_Witness ==
    /\ InTerminal
    /\ Running
    /\ ~first_term_open
    /\ typed_input = <<"a">>
    /\ bash_process = 0
    /\ command_sender = 0
    /\ shell_in[0] = << >>
    /\ pty_out[0] = << >>
    /\ process_out = << >>

\* ---------------------------------------------------------------------------
\* The interrupt: Ctrl-c pressed in Terminal context.
InterruptStep == InTerminal /\ \E ok \in BOOLEAN : KeyCtrlC(ok)

\* C16: an interrupt writes the single byte 0x03 to the shell of the
\* session (or nothing, when the write fails) and leaves the child handle,
\* the writer, the output buffer as drawn, the text typed and the context
\* as they are; it never restarts the session.
C16_InterruptByte ==
    [][InterruptStep =>
        /\ \/ shell_in' = [shell_in EXCEPT ![bash_process] = Append(@, <<"ETX">>)]
           \/ shell_in' = shell_in
        /\ bash_process' = bash_process
        /\ command_sender' = command_sender
        /\ live_shells' = live_shells
        /\ process_out' = RenderedOut
        /\ pty_out' = pty_out
        /\ typed_input' = typed_input
        /\ switch_context' = "Terminal"
        /\ ~panicked']_vars

\* The interrupt byte waits in the input of the shell, the text typed is
\* still there.
C16_Witness ==
    /\ InTerminal
    /\ shell_in[bash_process] = <<<<"ETX">>>>
    /\ typed_input # << >>

\* ---------------------------------------------------------------------------
\* C17: Esc pressed in any context sets the exit flag; once set the flag is
\* never cleared, no further input is dispatched (nothing the handlers
\* assign changes any more) and the loop has ended.
C17_EscExits ==
    /\ [](exit => ~Running)
    /\ [][/\ KeyEsc => exit'
          /\ exit => /\ exit'
                     /\ UNCHANGED <<uiVars, toggle_origin, search_in_progress,
                                    bash_process, command_sender>>
                     /\ \A s \in Sessions : Len(shell_in'[s]) <= Len(shell_in[s])]_vars

\* The program was left by Esc pressed in the terminal.
C17_Witness == exit /\ switch_context = "Terminal"

\* ---------------------------------------------------------------------------
\* The cycle of the lists, and the list that Tab is to reach from f: the
\* first non-empty list after f in the cycle, f itself when there is none.
CycleNext(f) ==
    CASE f = "Recentfiles" -> "Filelist"
      [] f = "Filelist" -> "Filestrlist"
      [] f = "Filestrlist" -> "Recentfiles"

HasEntries(f) == FocusList(f, recent_files, file_list, file_str_list) # << >>

CycleTarget(f) ==
    IF HasEntries(CycleNext(f)) THEN CycleNext(f)
    ELSE IF HasEntries(CycleNext(CycleNext(f))) THEN CycleNext(CycleNext(f))
    ELSE f

\* Tab pressed in a context whose handler has the Tab arm.
TabStep == switch_context # "Terminal" /\ KeyTab

\* C18: Tab skips the empty lists: the focus is unchanged when both other
\* lists are empty, it moves to a non-empty list when there is one, and
\* repeated Tabs go round the non-empty lists in the fixed cycle recent
\* files, file list, content matches.
C18_TabCycle ==
    [][TabStep =>
        /\ switch_focus' = CycleTarget(switch_focus)
        /\ switch_focus' # switch_focus => HasEntries(switch_focus')
        /\ (\A f \in Focuses \ {switch_focus} : ~HasEntries(f)) => switch_focus' = switch_focus
        /\ (\E f \in Focuses \ {switch_focus} : HasEntries(f)) => switch_focus' # switch_focus
        /\ UNCHANGED <<recent_files, file_list, file_str_list>>]_vars

\* Tab has reached the recent files while all three lists have entries.
C18_Witness ==
    /\ switch_focus = "Recentfiles"
    /\ hltd_file = 0
    /\ recent_files # << >>
    /\ file_list # << >>
    /\ file_str_list # << >>

\* ---------------------------------------------------------------------------
\* Down and Up pressed in a context whose handler has the arm.
DownStep == switch_context # "Terminal" /\ KeyDown

UpStep == switch_context # "Terminal" /\ KeyUp

\* C19: Down and Up are clamped and never wrap: Down at the last entry and
\* Up at index 0 leave the highlighted index as it is, every other Down adds
\* one to it and every other Up takes one from it, and on an empty focused
\* list neither key changes anything.
C19_DownUpClamped ==
    [][/\ DownStep =>
            hltd_file' = IF FocusedList = << >> \/ hltd_file = Len(FocusedList) - 1
                         THEN hltd_file ELSE hltd_file + 1
       /\ UpStep =>
            hltd_file' = IF FocusedList = << >> \/ hltd_file = 0
                         THEN hltd_file ELSE hltd_file - 1
       /\ (DownStep \/ UpStep) /\ FocusedList = << >> =>
            UNCHANGED <<switch_focus, switch_context, recent_files, file_list,
                        file_str_list, typed_input>>]_vars

\* ---------------------------------------------------------------------------
\* The scheme after n more advances.
RECURSIVE SchemeAfter(_)
SchemeAfter(n) ==
    IF n = 0 THEN [cs_index |-> colorscheme_index, cs |-> colorscheme, hl |-> highlight_color]
    ELSE AdvanceScheme(SchemeAfter(n - 1).cs_index)

\* C20: advancing the color scheme as many times as the palette has names
\* gives the color scheme of the state the advances started from, from every
\* reachable state, the initial ones with the default or a loaded
\* configuration included.
C20_CycleReturns == SchemeAfter(Len(COLORS)).cs = colorscheme

\* ---------------------------------------------------------------------------
\* The last replace: whether it held an entry for line i of file p, whether
\* it held an entry for p at all, and the lines p is to have after it.
HeldFor(p, i) ==
    \E k \in 1..Len(replaced.held) :
        IsPrefix(p \o <<":">> \o FmtNat(i) \o <<":">>, replaced.held[k])

HeldForFile(p) ==
    \E k \in 1..Len(replaced.held) : IsPrefix(p \o <<":">>, replaced.held[k])

LinesBefore(p) == Lines(replaced.disk[p].content)

ExpectedLines(p) ==
    [i \in 1..Len(LinesBefore(p)) |->
        IF HeldFor(p, i) THEN ReplaceAll(LinesBefore(p)[i], replaced.filter, replaced.typed)
        ELSE LinesBefore(p)[i]]

\* A replace was made, of files that could be read and written.
Replaced == replaced # NotReplaced

Accessible(p) == replaced.disk[p].readable /\ replaced.disk[p].writable

\* C21: the replace substitutes the filter recorded by the replacement typed
\* on the recorded line of each content match held, and every other line of
\* every file keeps its content and its position.
C21_OnlyRecordedLines ==
    Replaced =>
        \A p \in DOMAIN disk :
            IF HeldForFile(p) /\ Accessible(p)
            THEN disk[p].content = JoinLines(ExpectedLines(p))
            ELSE Lines(disk[p].content) = LinesBefore(p)

\* C22: a file that cannot be read during the replace is left with the
\* content it had, and the matches in the other files of the batch are
\* applied.
C22_UnreadableUntouched ==
    Replaced =>
        \A p \in DOMAIN disk :
            /\ ~replaced.disk[p].readable => disk[p].content = replaced.disk[p].content
            /\ HeldForFile(p) /\ Accessible(p) => disk[p].content = JoinLines(ExpectedLines(p))

\* A match held whose line number is 0 or beyond the lines of its file.
OutOfRange(p) ==
    \E n \in 0..3 :
        /\ n = 0 \/ n > Len(LinesBefore(p))
        /\ \E k \in 1..Len(replaced.held) : replaced.held[k] = HeldEntry(p, n)

\* C23: a content match whose line number is 0 or larger than the number of
\* lines of its file is skipped alone: the other matches of the batch, of
\* the same file and of the other files, are applied, and the replace ends
\* as it does without such a match.
C23_BadLineSkipped ==
    Replaced /\ (\E q \in DOMAIN disk : OutOfRange(q)) =>
        /\ ~panicked
        /\ file_str_list = << >>
        /\ typed_input = << >>
        /\ \A p \in DOMAIN disk :
              HeldForFile(p) /\ Accessible(p) => disk[p].content = JoinLines(ExpectedLines(p))

\* The replace held a match out of range for a file, listed before a match
\* of the same file that was applied.
C23_Witness ==
    /\ Replaced
    /\ Len(replaced.held) = 2
    /\ replaced.held[1] = HeldEntry(PathA, 3)
    /\ Len(LinesBefore(PathA)) = 2
    /\ replaced.held[2] = HeldEntry(PathA, 2)
    /\ disk[PathA].content # replaced.disk[PathA].content

\* ---------------------------------------------------------------------------
\* C24: the search-and-replace mode can be toggled on: the keys pressed lead
\* to a state where Stringsearchreplace is the active context and the filter
\* recorded is not empty.
C24_ReplaceModeEntered ==
    <>(switch_context = "Stringsearchreplace" /\ current_str_filter # << >>)

\* ---------------------------------------------------------------------------
\* The query is a substring of the line, whatever the case of the letters.
ContainsAnyCase(line, query) ==
    \E off \in 0..(Len(line) - Len(query)) :
        \A j \in 1..Len(query) : ToLowerChar(line[off + j]) = ToLowerChar(query[j])

\* The lines that the job of worker w is to report: file i of its list was
\* opened and its line k contains the query.
Reportable(w) ==
    UNION {{<<i, k>> : k \in {l \in 1..Len(FileLines(w.files[i])) :
                                ContainsAnyCase(FileLines(w.files[i])[l], w.search)}} :
           i \in (1..Len(w.files)) \ w.failed}

RecordOf(w, ik) ==
    w.files[ik[1]] \o <<":">> \o FmtNat(ik[2]) \o <<":">>
        \o clean_utf8_content(FileLines(w.files[ik[1]])[ik[2]])

\* C25: the result a search job writes when it finishes holds one record
\* (path, line number from 1, text) for every line of every file of its
\* list that could be opened and contains the query as a substring in any
\* case, and no other record; a file that could not be opened gives none.
C25_ResultExact ==
    [][\A n \in 1..Len(workers) :
          WorkerFinish(n) =>
             LET data == search_result'[1]
                 w == workers[n]
             IN /\ Len(search_result') = 1
                /\ Len(data) = Cardinality(Reportable(w))
                /\ \A ik \in Reportable(w) :
                      Cardinality({k \in 1..Len(data) : data[k] = RecordOf(w, ik)}) = 1]_vars

\* The job for the query a has finished with the one line of ./a, which
\* holds an A, as its result.
C25_Witness ==
    /\ search_result = << << PathA \o <<":", "1", ":", "A">> >> >>
    /\ typed_input = <<"a">>
    /\ Len(file_list) = 2
    /\ workers = << >>

\* ---------------------------------------------------------------------------
\* The paths of the index, and the score of a path for the query typed.
Indexed == {fd_list[i] : i \in 1..Len(fd_list)}

Scored(path) == fuzzy_match(path, typed_input) # << >>

\* C26: the file list view holds exactly the paths of the index to which
\* the scoring function gives a score for the query, each once and no
\* other, in the order of non-increasing score.
C26_FilterExact ==
    /\ \A k \in 1..Len(file_list) : file_list[k] \in Indexed /\ Scored(file_list[k])
    /\ \A path \in Indexed :
          Scored(path) => Cardinality({k \in 1..Len(file_list) : file_list[k] = path}) = 1
    /\ Len(file_list) = Cardinality({path \in Indexed : Scored(path)})
    /\ \A k \in 1..(Len(file_list) - 1) :
          fuzzy_match(file_list[k], typed_input)[1] >= fuzzy_match(file_list[k + 1], typed_input)[1]

\* ---------------------------------------------------------------------------
\* The fields of the session state that the claim names.
SessionFields ==
    <<switch_context, switch_focus, typed_input, hltd_file, file_list, file_str_list,
      recent_files>>

\* A step of a reader thread: a line is appended to the shared buffer, or
\* the thread ends.
ReaderActed ==
    \/ Len(process_out') > Len(process_out)
    \/ readers' # readers /\ readers' \subseteq readers

\* A step of a search worker: a file of a job is scanned, or a job ends.
WorkerActed == workers' # workers /\ Len(workers') <= Len(workers)

\* C27: the background threads never write the session state.  A step of a
\* reader thread changes, of the program's state, the shared output buffer
\* only; a step of a search worker changes the progress counter and the
\* result slot only; the context, the focus, the typed input, the
\* highlighted index and the three lists change in steps of the primary
\* thread only.
C27_ThreadsKeepSession ==
    [][/\ ReaderActed =>
             UNCHANGED <<uiVars, tmux, searchVars, bash_process, command_sender,
                         shell_in, live_shells, term_fault>>
       /\ WorkerActed => UNCHANGED <<uiVars, tmux, search_in_progress, termVars>>
       /\ SessionFields' # SessionFields => ~ReaderActed /\ ~WorkerActed]_vars

\* Both kinds of thread have acted: a job has stored its result, which was
\* not fetched yet, and a reader has appended a line that was not drawn yet,
\* after the session was restarted.
C27_Witness ==
    /\ search_result # << >>
    /\ process_out # << >>
    /\ bash_process > 0
    /\ file_str_list = << >>

\* ---------------------------------------------------------------------------
\* C28: the terminal session is destroyed when the program exits.  Once the
\* exit flag is set and the run loop has ended, the shell of the current
\* session is killed: no shell that the program started is left running.
C28_ShellKilledAtExit == exit ~> (live_shells = {})

\* ---------------------------------------------------------------------------
\* C29: after a restart has killed the shell of a session, the reader thread
\* of that session ends, and with it its appends to the shared buffer,
\* whatever its reads return from then on: a session is left with the one
\* reader thread of its own.
C29_OldReaderEnds ==
    \A s \in Sessions : (s \in readers /\ s < bash_process) ~> (s \notin readers)

\* ---------------------------------------------------------------------------
\* A character or a backspace is handled.
Typing == KeyBackspace \/ \E c \in {"a", "b"} : KeyChar(c)

\* The handler changes, of the session, the typed input at most.
TypedInputAtMost ==
    UNCHANGED <<switch_context, switch_focus, hltd_file, file_list, file_str_list,
                recent_files>>

\* The file list view is the fuzzy filter of the index for the new typed
\* input.
FilterRerun == file_list' = run_search_cmd(fd_list, typed_input')

\* A backspace on an empty typed input changes nothing of the session.
EmptyBackspaceIdle == KeyBackspace /\ typed_input = << >> => UNCHANGED SessionFields

\* C30 as stated: a character or a backspace re-runs the fuzzy filter in
\* Fileviewer only; in Stringsearch, Stringsearchreplace, Terminal and Help
\* it changes the typed input at most and leaves the file list view and the
\* highlighted index as they were; a backspace on an empty typed input
\* changes nothing in any context.
C30_RefilterOnlyInFileviewer ==
    [][/\ Typing /\ switch_context # "Fileviewer" => TypedInputAtMost
       /\ Typing /\ switch_context = "Fileviewer" /\ typed_input' # typed_input
             => FilterRerun
       /\ EmptyBackspaceIdle]_vars

\* C30, amended: a character or a backspace re-runs the fuzzy filter in
\* Fileviewer and in Help, whose keys the same handler takes; in
\* Stringsearch, Stringsearchreplace and Terminal it changes the typed input
\* at most; a backspace on an empty typed input changes nothing in any
\* context.
C30_RefilterInFileviewerAndHelp ==
    [][/\ Typing /\ switch_context \notin {"Fileviewer", "Help"} => TypedInputAtMost
       /\ Typing /\ switch_context \in {"Fileviewer", "Help"}
                 /\ typed_input' # typed_input
             => FilterRerun /\ UNCHANGED <<switch_context, switch_focus, file_str_list,
                                           recent_files>>
       /\ EmptyBackspaceIdle]_vars

\* In Help a character was typed and the file list view was filtered by it:
\* it holds fewer paths than the index.
C30_Witness ==
    /\ switch_context = "Help"
    /\ typed_input # << >>
    /\ file_list = run_search_cmd(fd_list, typed_input)
    /\ Len(file_list) < Len(fd_list)

\* ---------------------------------------------------------------------------
\* Enter is handled in Stringsearch context.
StringsearchEnterHandled == switch_context = "Stringsearch" /\ KeyEnter(TRUE)

\* A match is being selected when the handler runs: the Focus is the
\* content-match list and the list has a selection.
SelectingMatch == switch_focus = "Filestrlist" /\ RenderedSel

\* A search job is started by the step.
JobStarted == Len(workers') = Len(workers) + 1 /\ search_in_progress'

\* The file of the match at the highlighted index is opened by the step: the
\* match exists, the handler runs to its end, and the path of the match is
\* among the recent files afterwards.
MatchOpened ==
    /\ hltd_file < Len(file_str_list)
    /\ ~panicked'
    /\ Contains(recent_files', BeforeColon(file_str_list[hltd_file + 1]))

\* C31: in Stringsearch context Enter starts a content-search job exactly
\* when no match is being selected, and otherwise opens the file of the
\* selected match without starting a job.
C31_EnterStartsOrOpens ==
    [][StringsearchEnterHandled =>
          IF SelectingMatch THEN MatchOpened /\ UNCHANGED searchVars
          ELSE JobStarted]_vars

\* ---------------------------------------------------------------------------
\* The lines of file p, within the file, that matches held by the replace
\* record.
HeldLines(p) == {i \in 1..Len(LinesBefore(p)) : HeldFor(p, i)}

\* C32: when several content matches held refer to the same file, which can
\* be read and written, the file written is the file read with every one of
\* the edits made in it: each recorded line has the filter substituted,
\* whatever the order of the matches, and no line is that of an older copy.
C32_AllEditsWritten ==
    Replaced =>
        \A p \in DOMAIN disk :
            Accessible(p) /\ Cardinality(HeldLines(p)) >= 2 =>
                disk[p].content =
                    JoinLines([i \in 1..Len(LinesBefore(p)) |->
                                 IF i \in HeldLines(p)
                                 THEN ReplaceAll(LinesBefore(p)[i], replaced.filter,
                                                 replaced.typed)
                                 ELSE LinesBefore(p)[i]])

\* Two matches of ./a were held, of its lines 2 and 1 in this order, and
\* both lines were edited.
C32_Witness ==
    /\ Replaced
    /\ replaced.held = <<HeldEntry(PathA, 2), HeldEntry(PathA, 1)>>
    /\ Len(LinesBefore(PathA)) = 2
    /\ replaced.typed # << >>
    /\ Len(Lines(disk[PathA].content)) = 2
    /\ Lines(disk[PathA].content)[1] # LinesBefore(PathA)[1]
    /\ Lines(disk[PathA].content)[2] # LinesBefore(PathA)[2]

\* ---------------------------------------------------------------------------
\* The terminal toggle is handled in Terminal context (out) or in the file
\* browser (in).
TerminalToggled ==
    /\ KeyCtrlT
    /\ switch_context \in {"Terminal", "Fileviewer", "Help"}

\* C33: toggling out of Terminal context and back in preserves the terminal
\* session.  Neither toggle kills or restarts the shell, replaces the
\* writer or the child held, ends a reader thread, or removes a line from
\* the shared output buffer: the buffer is left as the draw of the
\* iteration has it.
C33_TogglePreservesSession ==
    [][TerminalToggled =>
          /\ UNCHANGED <<bash_process, command_sender, live_shells, readers, shell_in,
                         pty_out>>
          /\ process_out' = RenderedOut
          /\ switch_context \in {"Fileviewer", "Help"} => process_out' = process_out]_vars

\* Terminal context was left by the toggle with lines in the shared buffer
\* and the first session running.
C33_Witness ==
    /\ switch_context = "Fileviewer"
    /\ prev_context = "Terminal"
    /\ toggle_origin = NoOrigin
    /\ process_out # << >>
    /\ live_shells = {0}
    /\ command_sender = 0

\* ---------------------------------------------------------------------------
\* Ctrl-x is handled.
CtrlXHandled == \E ok \in BOOLEAN : KeyCtrlX(ok)

\* C34: no handler indexes a list out of bounds.  When Enter opens the
\* selected match, when Ctrl-x in the file browser (Fileviewer or Help)
\* runs the highlighted entry, and when Ctrl-x in Stringsearch removes the
\* highlighted recent file, the list read is not empty and the highlighted
\* index is below its length.
C34_IndexInRange ==
    [][/\ StringsearchEnterHandled /\ SelectingMatch => hltd_file < Len(file_str_list)
       /\ CtrlXHandled /\ InFileviewerHandler => hltd_file < Len(FocusedList)
       /\ CtrlXHandled /\ switch_context = "Stringsearch"
                       /\ switch_focus = "Recentfiles" /\ recent_files # << >>
             => hltd_file < Len(recent_files)]_vars

\* ---------------------------------------------------------------------------
\* The poll step installs a content-match list.
Installs == IdlePoll /\ PollReady /\ search_result # << >>

\* The results that the job of worker w can compute for its query and its
\* file list, by the files that fail to open.
PossibleResults(w) ==
    {Collected([w EXCEPT !.failed = F]) :
        F \in SUBSET {i \in 1..Len(w.files) : w.files[i] \in MayFailToOpen}}

\* C35: the list that the poll step installs is the result of the search
\* job started last, for the query and the file list of that job.  While
\* the job started last is still scanning, a list installed is a result
\* for its query and its file list, never the result that an earlier job
\* left or wrote for another query or another list.
C35_LatestResultInstalled ==
    [][Installs =>
          /\ file_str_list' = search_result[1]
          /\ \A n \in 1..Len(workers) :
                workers[n].latest => search_result[1] \in PossibleResults(workers[n])]_vars

\* ---------------------------------------------------------------------------
\* The query and the file list that worker w2 holds are those of worker w.
SameJob(w, w2) == w2.files = w.files /\ w2.search = w.search

\* C36: a search job scans the file list view and matches the typed query
\* as they were when the search started.  The job started by a step holds
\* the file list view and the lowercased typed input of that moment; in
\* every later step a job in flight keeps both, whatever the step does to
\* the file list view and to the typed input; and the result a job writes
\* when it ends is the matches of its query in the files of its list.
C36_JobKeepsListAndQuery ==
    [][/\ Len(workers') = Len(workers) =>
             \A n \in 1..Len(workers) : SameJob(workers[n], workers'[n])
       /\ Len(workers') = Len(workers) + 1 =>
             /\ \A n \in 1..Len(workers) : SameJob(workers[n], workers'[n])
             /\ workers'[Len(workers')].files = file_list
             /\ workers'[Len(workers')].search = to_lowercase(typed_input)
       /\ Len(workers') = Len(workers) - 1 =>
             \E n \in 1..Len(workers) :
                 /\ workers' = RemoveAt(workers, n)
                 /\ search_result' = <<Collected(workers[n])>>]_vars

\* A job has scanned a file while the typed input and the file list view
\* are no longer those it was started with.
C36_Witness ==
    \E n \in 1..Len(workers) :
        /\ workers[n].files # file_list
        /\ workers[n].search # to_lowercase(typed_input)
        /\ workers[n].todo # 1..Len(workers[n].files)
        /\ workers[n].todo # {}

\* ---------------------------------------------------------------------------
\* C37: whenever the context is Fileviewer, the file list view is the fuzzy
\* filter of the current file index by the current typed input: also after
\* a rescan and after the return from Terminal and from Stringsearch.
C37_ListIsFilterOfIndex ==
    switch_context = "Fileviewer" => file_list = run_search_cmd(fd_list, typed_input)

\* ---------------------------------------------------------------------------
\* Enter is handled in Terminal context.
TerminalEnterHandled ==
    switch_context = "Terminal" /\ (KeyEnter(TRUE) \/ TerminalEnterOverlapped)

\* C38: the output of the command just sent is not lost.  Once a command
\* was sent, a step other than Enter in Terminal context removes no line
\* from the shared buffer; and when Enter writes a command to the shell, no
\* line of that command is removed by the clear of that Enter: as the
\* handler ends, the command is still to be read by the shell, or its
\* answer is still to be read by the reader thread.
C38_OutputOfSentCommandKept ==
    [][/\ ~first_term_open /\ ~TerminalEnterHandled => IsPrefix(process_out, process_out')
       /\ TerminalEnterHandled /\ SendKind(TrimSemis(typed_input)) = "write" =>
             \/ Contains(shell_in'[command_sender], SentItem)
             \/ Contains(pty_out'[command_sender],
                         [sess |-> command_sender, text |-> SentItem])]_vars

\* ---------------------------------------------------------------------------
\* C39: whenever the context is Help, the context remembered by the toggles
\* is not Help, so that the help toggle pressed in Help always leaves Help.
C39_HelpToggleLeavesHelp ==
    [][/\ switch_context = "Help" => prev_context # "Help"
       /\ switch_context' = "Help" => prev_context' # "Help"
       /\ KeyCtrlH /\ switch_context = "Help" => switch_context' # "Help"]_vars

\* Help was entered from Terminal context by the help toggle, and the help
\* toggle pressed in Help has left it for Terminal context.
C39_Witness ==
    /\ switch_context = "Terminal"
    /\ prev_context = "Terminal"
    /\ toggle_origin = NoOrigin

\* ---------------------------------------------------------------------------
\* Enter in Stringsearchreplace context with no match selected: the replace.
ReplaceCalled ==
    switch_context = "Stringsearchreplace" /\ ~MatchSelected /\ KeyEnter(TRUE)

\* C40: when the recorded filter string is empty, the replace changes
\* nothing: no file is read or written, and the matches held and the typed
\* input are kept.
C40_EmptyFilterReplacesNothing ==
    [][ReplaceCalled /\ current_str_filter = << >> =>
          UNCHANGED <<disk, file_str_list, typed_input, replaced>>]_vars

\* The replace was called with an empty filter, a replacement typed and two
\* matches held for lines of a file that can be read and written: nothing
\* was replaced, and the matches and the replacement are still there.
C40_Witness ==
    /\ switch_context = "Stringsearchreplace"
    /\ ~MatchSelected
    /\ Running
    /\ current_str_filter = << >>
    /\ typed_input # << >>
    /\ file_str_list = <<HeldEntry(PathA, 1), HeldEntry(PathA, 2)>>
    /\ disk[PathA].readable
    /\ disk[PathA].writable
    /\ Len(Lines(disk[PathA].content)) = 2
    /\ ~Replaced

====
